---- MODULE Spec2Model ----
(***************************************************************************)
(* Model of backend/utils.py: the path sanitizer and the note/folder       *)
(* operations built on it, over an explicit POSIX-like filesystem.         *)
(*                                                                         *)
(* A string is a tuple of one-character strings; a pathlib.Path is a       *)
(* record [abs, parts]; an absolute resolved path is a tuple of segments   *)
(* (each segment a string as above), <<>> being "/".                       *)
(***************************************************************************)
EXTENDS Integers, Sequences, FiniteSets, TLC

VARIABLES fs, last, nops, rd

vars == <<fs, last, nops, rd>>

-----------------------------------------------------------------------------
(* Bounds *)

\* operations one behaviour of Spec performs
MaxOps == 2

\* operations the other caller performs in one behaviour of SpecRace
MaxRaceOps == 2

-----------------------------------------------------------------------------
(* Strings *)

NUL == "NUL"

MD == <<".", "m", "d">>

s_empty  == <<>>
s_dot    == <<".">>
s_dotsl  == <<".", "/">>
s_a      == <<"a">>
s_a_md   == <<"a", ".", "m", "d">>
s_a_b    == <<"a", ".", "b">>
s_ab     == <<"a", "/", "b">>
s_abc    == <<"a", "/", "b", "/", "c">>
s_up     == <<".", ".">>
s_abs    == <<"/", "a">>
s_nul    == <<"a", NUL>>
s_la     == <<"l", "/", "a">>
s_amd_b  == <<"a", ".", "m", "d", "/", "b">>
s_ha     == <<".", "h", "/", "a">>

\* path strings the callers supply
UserPaths ==
    { s_empty, s_dot, s_dotsl, s_a, s_a_md, s_a_b, s_ab, s_abc,
      s_up, s_abs, s_nul, s_la, s_amd_b, s_ha }

\* path strings the callers supply to the two-path operations
MovePaths == { s_dotsl, s_a, s_ab, s_abc, s_up, s_la, s_ha }

\* path strings of the callers that race with a reader
RacePaths == { s_a, s_ab }

\* characters of a note's text that open() treats specially: carriage return,
\* line feed, and a lone surrogate, which UTF-8 cannot encode
CR == "CR"

LF == "LF"

SUR == "SUR"

\* note contents the callers supply
Contents == { <<"x">>, <<"y">>, <<"x", CR, LF>>, <<"x", SUR>> }

\* the content of the file outside the notes directory
Secret == <<"s">>

EndsWith(s, suf) ==
    /\ Len(s) >= Len(suf)
    /\ SubSeq(s, Len(s) - Len(suf) + 1, Len(s)) = suf

StartsWith(s, pre) ==
    /\ Len(s) >= Len(pre)
    /\ SubSeq(s, 1, Len(pre)) = pre

IsPrefix(p, q) == StartsWith(q, p)

SetMax(S) == CHOOSE m \in S : \A n \in S : n <= m

-----------------------------------------------------------------------------
(* pathlib.PurePosixPath *)

RECURSIVE SplitAt(_, _, _)
\* s.split('/') from position i on, cur being the segment read so far
SplitAt(s, i, cur) ==
    IF i > Len(s) THEN << cur >>
    ELSE IF s[i] = "/" THEN << cur >> \o SplitAt(s, i + 1, <<>>)
    ELSE SplitAt(s, i + 1, Append(cur, s[i]))

IsRealPart(x) == x # <<>> /\ x # <<".">>

\* Path(s): empty and "." segments are dropped, ".." segments are kept
Path(s) ==
    [ abs   |-> Len(s) > 0 /\ s[1] = "/",
      parts |-> SelectSeq(SplitAt(s, 1, <<>>), IsRealPart) ]

RECURSIVE Join(_)
Join(parts) ==
    IF parts = <<>> THEN <<>>
    ELSE IF Len(parts) = 1 THEN parts[1]
    ELSE parts[1] \o <<"/">> \o Join(Tail(parts))

\* str(path)
StrOf(p) ==
    IF p.parts = <<>>
    THEN (IF p.abs THEN <<"/">> ELSE <<".">>)
    ELSE (IF p.abs THEN <<"/">> ELSE <<>>) \o Join(p.parts)

is_absolute(p) == p.abs

HasDotDot(p) == \E i \in 1..Len(p.parts) : p.parts[i] = <<".", ".">>

\* path.name
NameOf(p) == IF p.parts = <<>> THEN <<>> ELSE p.parts[Len(p.parts)]

\* path.suffix: from the last dot on, unless that dot is first or last
SuffixOf(name) ==
    LET dots == { i \in 1..Len(name) : name[i] = "." } IN
    IF dots = {} THEN <<>>
    ELSE LET i == SetMax(dots) IN
         IF 1 < i /\ i < Len(name) THEN SubSeq(name, i, Len(name)) ELSE <<>>

\* path.with_suffix(suffix) raises ValueError on an empty name
with_suffix_raises(p) == NameOf(p) = <<>>

with_suffix(p, suffix) ==
    LET name == NameOf(p)
        old  == SuffixOf(name)
        new  == IF old = <<>> THEN name \o suffix
                ELSE SubSeq(name, 1, Len(name) - Len(old)) \o suffix
    IN  [ abs |-> p.abs,
          parts |-> SubSeq(p.parts, 1, Len(p.parts) - 1) \o << new >> ]

-----------------------------------------------------------------------------
(* The filesystem: directories, regular files with their content, and      *)
(* symbolic links with their (absolute, resolved) target.                  *)

\* notes_dir, the configured root
Root == << <<"r">> >>

\* a directory that is not under notes_dir
Outside == << <<"o">> >>

Seg(s) == Path(s).parts

Under(p, s) == p \o Seg(s)

Parent(p) == SubSeq(p, 1, Len(p) - 1)

Prefixes(p) == { SubSeq(p, 1, k) : k \in 0..Len(p) }

Restrict(f, S) == [ x \in S |-> f[x] ]

NoFiles == [ x \in {} |-> <<>> ]

NoLinks == [ x \in {} |-> <<>> ]

Entries(f) == f.dirs \cup DOMAIN f.files \cup DOMAIN f.links

exists(f, p) == p \in f.dirs \/ p \in DOMAIN f.files

is_dir(f, p) == p \in f.dirs

is_file(f, p) == p \in DOMAIN f.files

Children(f, p) == { q \in Entries(f) : IsPrefix(p, q) /\ Len(q) = Len(p) + 1 }

RECURSIVE resolve_from(_, _, _)
\* Path.resolve(strict=False): follow the links met on the way down
resolve_from(f, cur, rest) ==
    IF rest = <<>> THEN cur
    ELSE LET nxt == Append(cur, Head(rest)) IN
         resolve_from(f, IF nxt \in DOMAIN f.links THEN f.links[nxt] ELSE nxt,
                      Tail(rest))

resolve(f, p) == resolve_from(f, <<>>, p)

\* Path.mkdir(parents=True, exist_ok=True): raises when the path or one of
\* its ancestors is a regular file, otherwise creates what is missing
mkdir_parents(f, p) ==
    IF \E q \in Prefixes(p) : is_file(f, q)
    THEN [ ok |-> FALSE, fs |-> f ]
    ELSE [ ok |-> TRUE, fs |-> [ f EXCEPT !.dirs = @ \cup Prefixes(p) ] ]

Rebase(q, src, dst) == dst \o SubSeq(q, Len(src) + 1, Len(q))

MoveKeys(S, src, dst) ==
    { q \in S : ~IsPrefix(src, q) } \cup { Rebase(q, src, dst) : q \in { x \in S : IsPrefix(src, x) } }

MoveMap(m, src, dst) ==
    [ q \in MoveKeys(DOMAIN m, src, dst) |->
        IF IsPrefix(dst, q) THEN m[Rebase(q, dst, src)] ELSE m[q] ]

\* a move that copies the file and leaves the source in place
rename_copy(f, src, dst) ==
    IF is_file(f, src) /\ is_dir(f, Parent(dst)) /\ ~is_dir(f, dst)
    THEN [ ok |-> TRUE,
           fs |-> [ f EXCEPT !.files =
               [ q \in DOMAIN f.files \cup {dst} |->
                   IF q = dst THEN f.files[src] ELSE f.files[q] ] ] ]
    ELSE [ ok |-> FALSE, fs |-> f ]

\* os.rename(src, dst)
rename(f, src, dst) ==
    IF ~exists(f, src) \/ ~is_dir(f, Parent(dst)) THEN [ ok |-> FALSE, fs |-> f ]
    ELSE IF src = dst THEN [ ok |-> TRUE, fs |-> f ]
    ELSE IF is_file(f, src)
    THEN IF is_dir(f, dst) THEN [ ok |-> FALSE, fs |-> f ]
         ELSE [ ok |-> TRUE,
                fs |-> [ f EXCEPT !.files =
                    [ q \in (DOMAIN f.files \ {src}) \cup {dst} |->
                        IF q = dst THEN f.files[src] ELSE f.files[q] ] ] ]
    ELSE IF \/ is_file(f, dst)
            \/ IsPrefix(src, dst)
            \/ (is_dir(f, dst) /\ Children(f, dst) # {})
    THEN [ ok |-> FALSE, fs |-> f ]
    ELSE [ ok |-> TRUE,
           fs |-> [ dirs  |-> MoveKeys(f.dirs, src, dst),
                    files |-> MoveMap(f.files, src, dst),
                    links |-> MoveMap(f.links, src, dst) ] ]

\* shutil.move(src, dst) of a directory src to a dst that does not exist:
\* os.rename, and when that fails because dst lies inside src, shutil.Error
shutil_move(f, src, dst) == rename(f, src, dst)

\* Path.unlink(): removes a regular file, raises on anything else
unlink(f, p) ==
    IF is_file(f, p)
    THEN [ ok |-> TRUE, fs |-> [ f EXCEPT !.files = Restrict(@, DOMAIN @ \ {p}) ] ]
    ELSE [ ok |-> FALSE, fs |-> f ]

\* shutil.rmtree(p): p and everything below it; links are removed, not followed
rmtree(f, p) ==
    [ dirs  |-> { q \in f.dirs : ~IsPrefix(p, q) },
      files |-> Restrict(f.files, { q \in DOMAIN f.files : ~IsPrefix(p, q) }),
      links |-> Restrict(f.links, { q \in DOMAIN f.links : ~IsPrefix(p, q) }) ]

\* a pruning step that removes the directory whether or not it is empty
rmdir_tree(f, p) ==
    IF is_dir(f, p) THEN [ ok |-> TRUE, fs |-> rmtree(f, p) ]
    ELSE [ ok |-> FALSE, fs |-> f ]

\* Path.rmdir(): removes an empty directory, raises OSError otherwise
rmdir(f, p) ==
    IF is_dir(f, p) /\ Children(f, p) = {}
    THEN [ ok |-> TRUE, fs |-> [ f EXCEPT !.dirs = @ \ {p} ] ]
    ELSE [ ok |-> FALSE, fs |-> f ]

RECURSIVE read_text(_)
\* f.read() of a file opened in text mode: "\r\n" and "\r" come back as "\n"
read_text(raw) ==
    IF raw = <<>> THEN <<>>
    ELSE IF Head(raw) = CR
    THEN <<LF>> \o read_text(IF Len(raw) > 1 /\ raw[2] = LF THEN Tail(Tail(raw)) ELSE Tail(raw))
    ELSE << Head(raw) >> \o read_text(Tail(raw))

\* what f.write(content) puts in the file: on POSIX "\n" is written as it is
write_text(content) == content

\* content.encode('utf-8') raises UnicodeEncodeError
encode_raises(content) == \E i \in 1..Len(content) : content[i] = SUR

SetFile(f, p, raw) ==
    [ f EXCEPT !.files = [ q \in DOMAIN f.files \cup {p} |-> IF q = p THEN raw ELSE f.files[q] ] ]

\* open(p, 'w') and f.write(content): open truncates the file, write raises
\* before anything is written when the content cannot be encoded
write_file(f, p, content) ==
    IF is_dir(f, p) \/ ~is_dir(f, Parent(p)) THEN [ ok |-> FALSE, fs |-> f ]
    ELSE IF encode_raises(content) THEN [ ok |-> FALSE, fs |-> SetFile(f, p, <<>>) ]
    ELSE [ ok |-> TRUE, fs |-> SetFile(f, p, write_text(content)) ]

-----------------------------------------------------------------------------
(* Return values *)

RetTrue == [ tag |-> "True", val |-> <<>> ]

RetFalse == [ tag |-> "False", val |-> <<>> ]

RetNone == [ tag |-> "None", val |-> <<>> ]

RetStr(c) == [ tag |-> "str", val |-> c ]

RetEmptyDict == [ tag |-> "{}", val |-> <<>> ]

RetMetadata == [ tag |-> "metadata", val |-> <<>> ]

\* the call ended in an exception that reached the caller
Raised(e) == [ tag |-> "raise", val |-> << e >> ]

Result(f, r, t) == [ fs |-> f, ret |-> r, touched |-> t ]

-----------------------------------------------------------------------------
(* The sanitizer *)

SanPath(p) == [ tag |-> "path", path |-> p ]

SanNone == [ tag |-> "none", path |-> <<>> ]

SanRaise == [ tag |-> "raise", path |-> <<>> ]

\* a check that lets every resolved path through
validate_path_security_open(f, notes_dir, path) == TRUE

validate_path_security(f, notes_dir, path) ==
    IsPrefix(resolve(f, notes_dir), resolve(f, path))

sanitize_user_path(f, user_path, must_be_md, allow_empty) ==
    IF user_path \in { <<>>, <<".">> }
    THEN (IF allow_empty THEN SanPath(resolve(f, Root)) ELSE SanNone)
    ELSE IF \E i \in 1..Len(user_path) : user_path[i] = NUL THEN SanNone
    ELSE LET user_p == Path(user_path) IN
         IF is_absolute(user_p) THEN SanNone
         ELSE IF HasDotDot(user_p) THEN SanNone
         ELSE IF must_be_md /\ ~EndsWith(StrOf(user_p), MD) /\ with_suffix_raises(user_p)
         THEN SanRaise
         ELSE LET md_p == IF must_be_md /\ ~EndsWith(StrOf(user_p), MD)
                          THEN with_suffix(user_p, MD) ELSE user_p
                  full_resolved == resolve(f, Root \o md_p.parts)
              IN  IF ~validate_path_security(f, Root, full_resolved) THEN SanNone
                  ELSE SanPath(full_resolved)

-----------------------------------------------------------------------------
(* The operations; each yields the filesystem it leaves, what it returns   *)
(* and the paths it handed to a filesystem call.                           *)

create_folder(f, folder_path) ==
    LET full == sanitize_user_path(f, folder_path, FALSE, FALSE) IN
    IF full.tag = "none" THEN Result(f, RetFalse, {})
    ELSE LET m == mkdir_parents(f, full.path) IN
         IF ~m.ok THEN Result(f, RetFalse, { full.path })
         ELSE Result(m.fs, RetTrue, { full.path })

\* the elements of the sorted list get_all_folders returns, as strings
get_all_folders(f) ==
    LET notes_path == Root
        items == { q \in Entries(f) : IsPrefix(notes_path, q) /\ q # notes_path
                                       /\ is_dir(f, resolve(f, notes_path)) }
        dirs  == { q \in items : is_dir(f, resolve(f, q)) }
        rel(q) == Join(SubSeq(q, Len(notes_path) + 1, Len(q)))
    IN  { rel(q) : q \in { x \in dirs : rel(x) # <<>> /\ ~StartsWith(rel(x), <<".">>) } }

move_note(f, old_path, new_path) ==
    LET old == sanitize_user_path(f, old_path, TRUE, FALSE)
        new == sanitize_user_path(f, new_path, TRUE, FALSE)
    IN  IF old.tag = "raise" \/ new.tag = "raise"
        THEN Result(f, Raised("ValueError"), {})
        ELSE IF old.tag = "none" THEN Result(f, RetFalse, {})
        ELSE IF new.tag = "none" THEN Result(f, RetFalse, {})
        ELSE IF ~exists(f, old.path) THEN Result(f, RetFalse, { old.path })
        ELSE LET m == mkdir_parents(f, Parent(new.path)) IN
             IF ~m.ok THEN Result(f, Raised("FileExistsError"), { old.path, Parent(new.path) })
             ELSE LET r == rename(m.fs, old.path, new.path) IN
                  Result(r.fs, IF r.ok THEN RetTrue ELSE RetFalse,
                         { old.path, new.path, Parent(new.path) })

move_folder(f, old_path, new_path) ==
    LET old == sanitize_user_path(f, old_path, FALSE, FALSE)
        new == sanitize_user_path(f, new_path, FALSE, FALSE)
    IN  IF old.tag = "none" \/ new.tag = "none" THEN Result(f, RetFalse, {})
        ELSE IF ~exists(f, old.path) \/ ~is_dir(f, old.path)
        THEN Result(f, RetFalse, { old.path })
        ELSE IF exists(f, new.path) THEN Result(f, RetFalse, { old.path, new.path })
        ELSE LET m == mkdir_parents(f, Parent(new.path)) IN
             IF ~m.ok THEN Result(f, Raised("FileExistsError"), { old.path, new.path, Parent(new.path) })
             ELSE LET r == shutil_move(m.fs, old.path, new.path) IN
                  Result(r.fs, IF r.ok THEN RetTrue ELSE RetFalse,
                         { old.path, new.path, Parent(new.path) })

rename_folder(f, old_path, new_path) == move_folder(f, old_path, new_path)

delete_folder(f, folder_path) ==
    LET full == sanitize_user_path(f, folder_path, FALSE, FALSE) IN
    IF full.tag = "none" THEN Result(f, RetFalse, {})
    ELSE IF ~exists(f, full.path) THEN Result(f, RetFalse, { full.path })
    ELSE IF ~is_dir(f, full.path) THEN Result(f, RetFalse, { full.path })
    ELSE Result(rmtree(f, full.path), RetTrue,
                { q \in Entries(f) : IsPrefix(full.path, q) })

\* get_note_content up to and including its exists()/is_file() test
get_note_check(f, note_path) ==
    LET full == sanitize_user_path(f, note_path, TRUE, FALSE) IN
    IF full.tag = "raise" THEN [ go |-> FALSE, path |-> <<>>, ret |-> Raised("ValueError") ]
    ELSE IF full.tag = "none" THEN [ go |-> FALSE, path |-> <<>>, ret |-> RetNone ]
    ELSE IF ~exists(f, full.path) \/ ~is_file(f, full.path)
    THEN [ go |-> FALSE, path |-> full.path, ret |-> RetNone ]
    ELSE [ go |-> TRUE, path |-> full.path, ret |-> RetNone ]

\* get_note_content from its open() on: open raises when the file is not there
get_note_read(f, full_path) ==
    IF is_file(f, full_path) THEN RetStr(read_text(f.files[full_path]))
    ELSE IF is_dir(f, full_path) THEN Raised("IsADirectoryError")
    ELSE Raised("FileNotFoundError")

get_note_content(f, note_path) ==
    LET chk == get_note_check(f, note_path) IN
    IF chk.go THEN Result(f, get_note_read(f, chk.path), { chk.path })
    ELSE Result(f, chk.ret, IF chk.path = <<>> THEN {} ELSE { chk.path })

save_note(f, note_path, content) ==
    LET raw == Path(note_path) IN
    IF ~EndsWith(StrOf(raw), MD) /\ with_suffix_raises(raw)
    THEN Result(f, Raised("ValueError"), {})
    ELSE LET candidate == IF ~EndsWith(StrOf(raw), MD) THEN with_suffix(raw, MD) ELSE raw
             full == sanitize_user_path(f, StrOf(candidate), TRUE, FALSE)
         IN  IF full.tag = "raise" THEN Result(f, Raised("ValueError"), {})
             ELSE IF full.tag = "none" THEN Result(f, RetFalse, {})
             ELSE LET m == mkdir_parents(f, Parent(full.path)) IN
                  IF ~m.ok THEN Result(f, Raised("FileExistsError"), { Parent(full.path) })
                  ELSE LET w == write_file(m.fs, full.path, content) IN
                       Result(w.fs, IF w.ok THEN RetTrue ELSE RetFalse,
                              { full.path, Parent(full.path) })

delete_note(f, note_path) ==
    LET full == sanitize_user_path(f, note_path, TRUE, FALSE) IN
    IF full.tag = "raise" THEN Result(f, Raised("ValueError"), {})
    ELSE IF full.tag = "none" THEN Result(f, RetFalse, {})
    ELSE IF ~exists(f, full.path) THEN Result(f, RetFalse, { full.path })
    ELSE LET u == unlink(f, full.path) IN
         IF ~u.ok THEN Result(f, RetFalse, { full.path })
         ELSE Result(rmdir(u.fs, Parent(full.path)).fs, RetTrue,
                     { full.path, Parent(full.path) })

create_note_metadata(f, note_path) ==
    LET full == sanitize_user_path(f, note_path, TRUE, FALSE) IN
    IF full.tag = "raise" THEN Result(f, Raised("ValueError"), {})
    ELSE IF full.tag = "none" THEN Result(f, RetEmptyDict, {})
    ELSE IF ~exists(f, full.path) THEN Result(f, RetEmptyDict, { full.path })
    ELSE IF ~is_file(f, full.path) THEN Result(f, Raised("IsADirectoryError"), { full.path })
    ELSE Result(f, RetMetadata, { full.path })

-----------------------------------------------------------------------------
(* The callers *)

NoCall ==
    [ op |-> "none", a1 |-> <<>>, a2 |-> <<>>, content |-> <<>>,
      ret |-> RetNone, touched |-> {} ]

Call(op, a1, a2, content, r) ==
    [ op |-> op, a1 |-> a1, a2 |-> a2, content |-> content,
      ret |-> r.ret, touched |-> r.touched ]

RdOff == [ pc |-> "off", arg |-> <<>>, path |-> <<>>, gone |-> FALSE, ret |-> RetNone ]

RdIdle == [ pc |-> "idle", arg |-> <<>>, path |-> <<>>, gone |-> FALSE, ret |-> RetNone ]

\* the trees the notes directory starts from
Tree(dirs, files, withLink) ==
    [ dirs  |-> { <<>>, Root, Outside } \cup dirs,
      files |-> files @@ (Under(Outside, s_a_md) :> Secret),
      links |-> IF withLink THEN (Append(Root, <<"l">>) :> Outside) ELSE NoLinks ]

InitTrees(withLink) ==
    { Tree({}, NoFiles, withLink),
      Tree({}, (Under(Root, s_a_md) :> <<"x">>), withLink),
      Tree({ Under(Root, s_a) },
           (Under(Root, s_a_md) :> <<"x">>) @@ (Under(Under(Root, s_a), <<"b", ".", "m", "d">>) :> <<"y">>),
           withLink) }

Init ==
    /\ fs \in InitTrees(TRUE) \cup InitTrees(FALSE)
    /\ last = NoCall
    /\ nops = 0
    /\ rd = RdOff

Ready(max) == last.op = "none" /\ nops < max

Do(op, a1, a2, content, r) ==
    /\ fs' = r.fs
    /\ last' = Call(op, a1, a2, content, r)
    /\ nops' = nops + 1
    /\ UNCHANGED rd

CreateFolderOn(S, max) ==
    \E p \in S : Ready(max) /\ Do("create_folder", p, <<>>, <<>>, create_folder(fs, p))

SaveNoteOn(S, max) ==
    \E p \in S, c \in Contents :
        Ready(max) /\ Do("save_note", p, <<>>, c, save_note(fs, p, c))

GetNoteContentOn(S, max) ==
    \E p \in S : Ready(max) /\ Do("get_note_content", p, <<>>, <<>>, get_note_content(fs, p))

DeleteNoteOn(S, max) ==
    \E p \in S : Ready(max) /\ Do("delete_note", p, <<>>, <<>>, delete_note(fs, p))

DeleteFolderOn(S, max) ==
    \E p \in S : Ready(max) /\ Do("delete_folder", p, <<>>, <<>>, delete_folder(fs, p))

CreateNoteMetadataOn(S, max) ==
    \E p \in S : Ready(max) /\ Do("create_note_metadata", p, <<>>, <<>>, create_note_metadata(fs, p))

MoveNoteOn(S, max) ==
    \E p \in S, q \in S : Ready(max) /\ Do("move_note", p, q, <<>>, move_note(fs, p, q))

MoveFolderOn(S, max) ==
    \E p \in S, q \in S : Ready(max) /\ Do("move_folder", p, q, <<>>, move_folder(fs, p, q))

RenameFolderOn(S, max) ==
    \E p \in S, q \in S : Ready(max) /\ Do("rename_folder", p, q, <<>>, rename_folder(fs, p, q))

CreateFolder == rd.pc = "off" /\ CreateFolderOn(UserPaths, MaxOps)

SaveNote == rd.pc = "off" /\ SaveNoteOn(UserPaths, MaxOps)

GetNoteContent == rd.pc = "off" /\ GetNoteContentOn(UserPaths, MaxOps)

DeleteNote == rd.pc = "off" /\ DeleteNoteOn(UserPaths, MaxOps)

DeleteFolder == rd.pc = "off" /\ DeleteFolderOn(UserPaths, MaxOps)

CreateNoteMetadata == rd.pc = "off" /\ CreateNoteMetadataOn(UserPaths, MaxOps)

MoveNote == rd.pc = "off" /\ MoveNoteOn(MovePaths, MaxOps)

MoveFolder == rd.pc = "off" /\ MoveFolderOn(MovePaths, MaxOps)

RenameFolder == rd.pc = "off" /\ RenameFolderOn(MovePaths, MaxOps)

\* the caller has looked at the result and is ready for its next request
Return ==
    /\ last.op # "none"
    /\ last' = NoCall
    /\ UNCHANGED <<fs, nops, rd>>

Next ==
    \/ CreateFolder
    \/ SaveNote
    \/ GetNoteContent
    \/ DeleteNote
    \/ DeleteFolder
    \/ CreateNoteMetadata
    \/ MoveNote
    \/ MoveFolder
    \/ RenameFolder
    \/ Return

Spec == Init /\ [][Next]_vars

TypeOK ==
    /\ nops \in 0..(MaxOps + 1)
    /\ <<>> \in fs.dirs
    /\ \A q \in Entries(fs) : q = <<>> \/ Parent(q) \in fs.dirs
    /\ fs.dirs \cap DOMAIN fs.files = {}

-----------------------------------------------------------------------------
(* A reader whose get_note_content is interleaved with another caller's    *)
(* deletes and moves: its exists()/is_file() test and its open() are two   *)
(* steps.                                                                  *)

InitRace ==
    /\ fs \in InitTrees(FALSE)
    /\ last = NoCall
    /\ nops = 0
    /\ rd = RdIdle

RdCheck ==
    \E p \in RacePaths :
        /\ rd.pc = "idle"
        /\ LET chk == get_note_check(fs, p) IN
           rd' = [ pc |-> IF chk.go THEN "checked" ELSE "done",
                   arg |-> p, path |-> chk.path, gone |-> FALSE, ret |-> chk.ret ]
        /\ UNCHANGED <<fs, last, nops>>

RdRead ==
    /\ rd.pc = "checked"
    /\ rd' = [ rd EXCEPT !.pc = "done",
                         !.gone = ~exists(fs, rd.path),
                         !.ret = get_note_read(fs, rd.path) ]
    /\ UNCHANGED <<fs, last, nops>>

RaceDeleteNote == rd.pc # "off" /\ DeleteNoteOn(RacePaths, MaxRaceOps)

RaceDeleteFolder == rd.pc # "off" /\ DeleteFolderOn(RacePaths, MaxRaceOps)

RaceMoveNote == rd.pc # "off" /\ MoveNoteOn(RacePaths, MaxRaceOps)

NextRace ==
    \/ RdCheck
    \/ RdRead
    \/ RaceDeleteNote
    \/ RaceDeleteFolder
    \/ RaceMoveNote
    \/ Return

SpecRace == InitRace /\ [][NextRace]_vars

-----------------------------------------------------------------------------
(* Properties *)

TwoPathOps == { "move_note", "move_folder", "rename_folder" }

LinkInRoot == Append(Root, <<"l">>) \in DOMAIN fs.links

\* the path, as the caller wrote it, has a ".." segment, is absolute or
\* holds a null byte
HasDotDotSegment(p) ==
    \E i \in 1..Len(SplitAt(p, 1, <<>>)) : SplitAt(p, 1, <<>>)[i] = <<".", ".">>

BadPath(p) ==
    \/ HasDotDotSegment(p)
    \/ (Len(p) > 0 /\ p[1] = "/")
    \/ \E i \in 1..Len(p) : p[i] = NUL

FailureResult(op) ==
    CASE op = "get_note_content" -> RetNone
      [] op = "create_note_metadata" -> RetEmptyDict
      [] OTHER -> RetFalse

\* p followed by ".md", unless it ends in ".md" already
AppendMd(p) == IF EndsWith(p, MD) THEN p ELSE p \o MD

\* the last "/"-separated segment of p is a name with no suffix of its own
PlainName(p) ==
    LET segs == SplitAt(p, 1, <<>>)
        name == segs[Len(segs)]
    IN  IsRealPart(name) /\ SuffixOf(name) = <<>>

RelStr(q) == Join(SubSeq(q, Len(Root) + 1, Len(q)))

Subtree(f, p) ==
    [ dirs  |-> { q \in f.dirs : IsPrefix(p, q) },
      files |-> Restrict(f.files, { q \in DOMAIN f.files : IsPrefix(p, q) }),
      links |-> Restrict(f.links, { q \in DOMAIN f.links : IsPrefix(p, q) }) ]

\* C1: every path an operation hands to the filesystem is Root or lies below
\* it, what lies outside Root stays as it was, and no operation returns the
\* content of a file outside Root.
Confinement ==
    /\ \A q \in last.touched : IsPrefix(Root, q)
    /\ { q \in Entries(fs) : ~IsPrefix(Root, q) } = { <<>>, Outside, Under(Outside, s_a_md) }
    /\ fs.files[Under(Outside, s_a_md)] = Secret
    /\ last.ret # RetStr(read_text(Secret))

\* C1 witness: a save through the link that leaves Root was refused.
ConfinementWitness ==
    /\ LinkInRoot
    /\ last.op = "save_note"
    /\ last.a1 = s_la
    /\ last.ret = RetFalse

\* C2: the sanitizer rejects every path with a ".." segment, a leading "/"
\* or a null byte under all four flag combinations, and an operation given
\* such a path as one of its path arguments, when it returns, returns its
\* failure result and has left the filesystem alone.
RejectedPathsRefused ==
    [][ /\ \A p \in UserPaths : BadPath(p) =>
             \A m \in BOOLEAN, e \in BOOLEAN : sanitize_user_path(fs', p, m, e).tag = "none"
        /\ ( /\ last'.op # "none"
             /\ last'.ret.tag # "raise"
             /\ (BadPath(last'.a1) \/ (last'.op \in TwoPathOps /\ BadPath(last'.a2))) )
           => (last'.ret = FailureResult(last'.op) /\ fs' = fs) ]_vars

\* C3: no operation ends in an exception that reaches its caller.
NoPropagatingFault == last.ret.tag # "raise"

\* C4: after a successful save_note(p, c) of a path the sanitizer accepts,
\* get_note_content(p) returns exactly c, whatever the note held before, and
\* so does get_note_content(p with ".md" appended) when p ends in ".md" or
\* its last segment is a name with no suffix of its own (with_suffix replaces
\* any other suffix, so that "a.b" is stored as "a.md", not "a.b.md").
SaveGetRoundTrip ==
    ( /\ last.op = "save_note"
      /\ last.ret = RetTrue
      /\ sanitize_user_path(fs, last.a1, TRUE, FALSE).tag = "path" )
    => /\ get_note_content(fs, last.a1).ret = RetStr(last.content)
       /\ (EndsWith(last.a1, MD) \/ PlainName(last.a1))
            => get_note_content(fs, AppendMd(last.a1)).ret = RetStr(last.content)

\* move_note(old, new) is called on an existing note and another destination
MoveNoteCase(f, a1, a2) ==
    LET old == sanitize_user_path(f, a1, TRUE, FALSE)
        new == sanitize_user_path(f, a2, TRUE, FALSE)
    IN  /\ old.tag = "path" /\ new.tag = "path"
        /\ is_file(f, old.path)
        /\ old.path # new.path

MoveNoteEffects(f, g, a1, a2) ==
    LET old == sanitize_user_path(f, a1, TRUE, FALSE) IN
    /\ get_note_content(g, a1).ret = RetNone
    /\ get_note_content(g, a2).ret = get_note_content(f, a1).ret
    /\ is_dir(g, Parent(old.path))

DestParent(f, a2) == Parent(sanitize_user_path(f, a2, TRUE, FALSE).path)

\* C5 as claimed: after a successful move of an existing note to another
\* place, the old path reads not-found, the new path reads the old content,
\* the old parent directory is still there, and get_all_folders lists the
\* destination's parent.
MoveNoteListsParent ==
    [][ ( /\ last'.op = "move_note" /\ last'.ret = RetTrue
          /\ MoveNoteCase(fs, last'.a1, last'.a2) )
        => /\ MoveNoteEffects(fs, fs', last'.a1, last'.a2)
           /\ RelStr(DestParent(fs, last'.a2)) \in get_all_folders(fs') ]_vars

\* C5 as amended: the same, with the destination's parent listed by
\* get_all_folders when it is not Root itself and its path relative to Root
\* does not start with a dot.
MoveNoteRelocates ==
    [][ ( /\ last'.op = "move_note" /\ last'.ret = RetTrue
          /\ MoveNoteCase(fs, last'.a1, last'.a2) )
        => /\ MoveNoteEffects(fs, fs', last'.a1, last'.a2)
           /\ ( /\ DestParent(fs, last'.a2) # Root
                /\ ~StartsWith(RelStr(DestParent(fs, last'.a2)), <<".">>) )
              => RelStr(DestParent(fs, last'.a2)) \in get_all_folders(fs') ]_vars

\* C5 witness: the note a.md was moved to a/b.md, and folder "a" is listed.
MoveNoteWitness ==
    /\ last.op = "move_note" /\ last.a1 = s_a /\ last.a2 = s_ab /\ last.ret = RetTrue
    /\ ~exists(fs, Under(Root, s_a_md))
    /\ is_file(fs, Under(Root, s_ab \o MD))
    /\ s_a \in get_all_folders(fs)

\* C6: a successful delete_note removes the note file and nothing else, but
\* for its immediate parent directory, which goes exactly when the deletion
\* left it empty; delete_note of a note that is not there returns False and
\* changes nothing.
DeleteNotePrunes ==
    [][ last'.op = "delete_note" =>
        LET full   == sanitize_user_path(fs, last'.a1, TRUE, FALSE)
            parent == Parent(full.path)
        IN  /\ last'.ret = RetTrue =>
                /\ full.tag = "path"
                /\ ~exists(fs', full.path)
                /\ (parent \notin fs'.dirs) <=> (Children(fs, parent) \ { full.path } = {})
                /\ fs'.dirs \subseteq fs.dirs
                /\ fs.dirs \ { parent } \subseteq fs'.dirs
                /\ fs'.files = Restrict(fs.files, DOMAIN fs.files \ { full.path })
                /\ fs'.links = fs.links
            /\ (full.tag = "path" /\ ~exists(fs, full.path)) =>
                (last'.ret = RetFalse /\ fs' = fs) ]_vars

\* C6 witness: deleting a/b.md, the last entry of folder a, removed folder a
\* and left Root with the note a.md in it.
DeleteNoteWitness ==
    /\ last.op = "delete_note" /\ last.a1 = s_ab /\ last.ret = RetTrue
    /\ ~exists(fs, Under(Root, s_a))
    /\ is_file(fs, Under(Root, s_a_md))

\* C7: a move whose source is a path the sanitizer accepts and whose
\* destination is another path that exists when the call is made returns
\* False and changes nothing.
DestinationConflictRefused ==
    [][ last'.op \in TwoPathOps =>
        LET old == sanitize_user_path(fs, last'.a1, last'.op = "move_note", FALSE)
            new == sanitize_user_path(fs, last'.a2, last'.op = "move_note", FALSE)
        IN  ( /\ old.tag = "path" /\ new.tag = "path"
              /\ old.path # new.path
              /\ exists(fs, new.path) )
            => (last'.ret = RetFalse /\ fs' = fs) ]_vars

\* C8: a move_folder or rename_folder of a folder below Root that returns
\* False leaves the source directory and everything below it as it was.
FailedFolderMoveKeepsSource ==
    [][ (last'.op \in { "move_folder", "rename_folder" } /\ last'.ret = RetFalse) =>
        LET old == sanitize_user_path(fs, last'.a1, FALSE, FALSE) IN
        (old.tag = "path" /\ old.path # Root /\ is_dir(fs, old.path)) =>
            Subtree(fs', old.path) = Subtree(fs, old.path) ]_vars

\* C9: a get_note_content that another caller's operations interleave with
\* never raises, returns None when the file is gone at the time it is opened,
\* and otherwise returns a content that was saved.
ReadRacingDelete ==
    rd.pc = "done" =>
        /\ rd.ret.tag # "raise"
        /\ rd.gone => rd.ret = RetNone
        /\ rd.ret.tag = "str" => rd.ret.val \in { read_text(write_text(c)) : c \in Contents }

\* C10: Root is a directory in every reachable state.
RootSurvives == is_dir(fs, Root)

====
